---- MODULE Spec2Model ----
(***************************************************************************)
(* BitOQSim: the factorization orchestrator                                *)
(* ShorFactoringAlgorithm.ShorFactoringAlgorithmClassical                  *)
(* (src/CompletedExamples/ShorFactoringAlgorithm.py), as a state machine.  *)
(*                                                                         *)
(* One run of the function is one behaviour: the inputs (num, limit,       *)
(* quick_compute) are chosen in Init, the two strip loops and the main     *)
(* loop advance one iteration per step, and the four return statements     *)
(* lead to pc = "done".  randint and the pluggable period function are     *)
(* the environment: the sampled candidate and the returned period (or the  *)
(* ValueError raised) are chosen with \E.                                  *)
(*                                                                         *)
(* num is a Python int of any size on entry and a Python float after the   *)
(* first num /= k.  Its value is always a natural number, kept as a        *)
(* sequence of limbs; a division of the strip loops rounds to 53           *)
(* significant bits (TrueDiv).  guessFactor**(period / 2) is a float power *)
(* and keeps its 53-bit mantissa too (FloatPowSet), because the code goes  *)
(* on to take int() and gcd of the rounded value.                          *)
(***************************************************************************)
EXTENDS Integers, Sequences, FiniteSets, TLC

\* ------------------------------------------------------------------ bounds
\* inputs num range over 0..MaxNum, ExtraNums and BigNums
MaxNum == 25
\* the input 2^BigBits + 2, an int beyond the 53 bits of a float
BigBits == 54
\* limit ranges over 0..MaxLimit
MaxLimit == 2
\* the period function returns 0..MaxPeriod, 2 * LargeHalf or 2 * HugeHalf
MaxPeriod == 4
LargeHalf == 35
HugeHalf == 1024
\* the accumulator of the run on num = 0, whose first loop never ends
MaxFactors == 12

ExtraNums == {49, 100}
PeriodValues == (0..MaxPeriod) \cup {2 * LargeHalf, 2 * HugeHalf}

\* --------------------------------------------------- Python float constants
\* binary64: 53 significant bits, values below 2^1024
MantissaBits == 53
MaxExponent == 1024
\* width of one limb of the exact integers below
LimbBits == 15

VARIABLES
    N,              \* the argument num as passed, as limbs
    limit,          \* the argument limit
    quick_compute,  \* the argument quick_compute
    pc,             \* "strip2", "strip5", "loop", "return", "done", "raised"
    num,            \* the working cofactor (the local num), as limbs
    factorization,  \* the accumulator
    i,              \* main-loop iterations started
    calls,          \* invocations of the period function
    lastCall,       \* <<modulus (limbs), base>> of the last invocation
    lastPeriod,     \* the local period after it (1 when it raised)
    extractions,    \* iterations that executed lines 303-319
    outcome,        \* how the last step ended
    path,           \* the return statement taken
    result          \* the returned list

vars == <<N, limit, quick_compute, pc, num, factorization, i, calls, lastCall,
          lastPeriod, extractions, outcome, path, result>>

\* One call of the gate library (src/src/QuantumCircuitMatrix.py) or of the
\* gate builders and the period function of ShorFactoringAlgorithm.py
VARIABLES
    call,              \* the function called and its arguments
    qpc,               \* position in the call: "idle", ..., "returned", "raised"
    matrix_of_qubits,  \* c_amod15 / c_amodb: the local matrix_of_qubits
    iteration,         \* c_amod15 / c_amodb: iterations of the loop executed
    work,              \* matrices constructed, swaps and Pauli-X steps applied
    qIndex,            \* qubitFactoringPeriodFinding: the loop variable q
    qc,                \* qubitFactoringPeriodFinding: the diagonal of qc
    frames,            \* identity_gate_helper: numQubits of the active calls
    value,             \* the value returned (by the call, or by the last
                       \* recursive call)
    error              \* the exception that left the call, or "none"

gvars == <<call, qpc, matrix_of_qubits, iteration, work, qIndex, qc, frames,
           value, error>>

\* no call of the gate library is in progress
NoCall ==
    /\ call = [f |-> "none"]
    /\ qpc = "idle"
    /\ matrix_of_qubits = <<>>
    /\ iteration = 0
    /\ work = 0
    /\ qIndex = 0
    /\ qc = <<>>
    /\ frames = <<>>
    /\ value = <<>>
    /\ error = "none"


\* ------------------------------------------------------ integer helpers
RECURSIVE Pow2(_)
Pow2(k) == IF k = 0 THEN 1 ELSE 2 * Pow2(k - 1)

RECURSIVE FloorLog2(_)
FloorLog2(x) == IF x < 2 THEN 0 ELSE 1 + FloorLog2(x \div 2)

\* FactorFuncs.gcd(x, y)
RECURSIVE Gcd(_, _)
Gcd(x, y) == IF y = 0 THEN x ELSE Gcd(y, x % y)

\* FactorFuncs.isqrt(x): the largest r with r * r <= x
RECURSIVE IsqrtFrom(_, _)
IsqrtFrom(x, r) == IF (r + 1) * (r + 1) > x THEN r ELSE IsqrtFrom(x, r + 1)

Isqrt(x) == IsqrtFrom(x, 0)

\* (a test that takes twice the root for the square)
IsDoubledRoot(x) == Isqrt(x) * 2 = x

\* line 270: FactorFuncs.isqrt(num)**2 == num
IsPerfectSquare(x) == Isqrt(x) * Isqrt(x) = x

\* lines 271-273: int(np.sqrt(num)), for a num that passed line 270
IntSqrt(x) == Isqrt(x)

\* ------------------------------------------- exact integers, as limbs
\* A natural number as its little-endian sequence of LimbBits-bit limbs,
\* without leading zero limbs: Python's unbounded int.
LimbBase == Pow2(LimbBits)

\* the limbs of a small natural, and back
RECURSIVE Limbs(_)
Limbs(x) == IF x = 0 THEN <<>> ELSE <<x % LimbBase>> \o Limbs(x \div LimbBase)

RECURSIVE Val(_)
Val(limbs) == IF limbs = <<>> THEN 0 ELSE Head(limbs) + LimbBase * Val(Tail(limbs))

\* limbs * k + carry, for a small k
RECURSIVE LimbsMul(_, _, _)
LimbsMul(limbs, k, carry) ==
    IF limbs = <<>>
    THEN IF carry = 0 THEN <<>> ELSE <<carry>>
    ELSE <<(Head(limbs) * k + carry) % LimbBase>>
         \o LimbsMul(Tail(limbs), k, (Head(limbs) * k + carry) \div LimbBase)

RECURSIVE LimbsAdd(_, _, _)
LimbsAdd(a, b, carry) ==
    IF a = <<>> /\ b = <<>>
    THEN IF carry = 0 THEN <<>> ELSE <<carry>>
    ELSE LET x == IF a = <<>> THEN 0 ELSE Head(a)
             y == IF b = <<>> THEN 0 ELSE Head(b)
         IN  <<(x + y + carry) % LimbBase>>
             \o LimbsAdd(IF a = <<>> THEN a ELSE Tail(a),
                         IF b = <<>> THEN b ELSE Tail(b),
                         (x + y + carry) \div LimbBase)

RECURSIVE LimbsTimes(_, _)
LimbsTimes(a, b) ==
    IF a = <<>> \/ b = <<>> THEN <<>>
    ELSE LimbsAdd(LimbsMul(b, Head(a), 0),
                  IF Len(a) = 1 THEN <<>> ELSE <<0>> \o LimbsTimes(Tail(a), b),
                  0)

\* g^h, exactly
RECURSIVE LimbsPow(_, _)
LimbsPow(g, h) ==
    IF h = 0 THEN <<1>>
    ELSE LET r == LimbsPow(g, h \div 2)
             sq == LimbsTimes(r, r)
         IN  IF h % 2 = 0 THEN sq ELSE LimbsMul(sq, g, 0)

LimbsBitLength(limbs) ==
    IF limbs = <<>> THEN 0
    ELSE (Len(limbs) - 1) * LimbBits + FloorLog2(limbs[Len(limbs)]) + 1

\* floor(limbs / 2^r), for 0 <= r < LimbBits
RECURSIVE LimbsShiftRight(_, _)
LimbsShiftRight(limbs, r) ==
    IF limbs = <<>> THEN <<>>
    ELSE LET hi == IF Len(limbs) > 1 THEN limbs[2] % Pow2(r) ELSE 0
             d == Head(limbs) \div Pow2(r) + hi * Pow2(LimbBits - r)
         IN  IF Len(limbs) = 1 /\ d = 0 THEN <<>>
             ELSE <<d>> \o LimbsShiftRight(Tail(limbs), r)

RECURSIVE LimbsInc(_)
LimbsInc(limbs) ==
    IF limbs = <<>> THEN <<1>>
    ELSE IF Head(limbs) + 1 < LimbBase THEN <<Head(limbs) + 1>> \o Tail(limbs)
         ELSE <<0>> \o LimbsInc(Tail(limbs))

\* limbs - 1, for limbs >= 1
RECURSIVE LimbsDec(_)
LimbsDec(limbs) ==
    IF Head(limbs) > 0
    THEN IF Len(limbs) = 1 /\ Head(limbs) = 1 THEN <<>>
         ELSE <<Head(limbs) - 1>> \o Tail(limbs)
    ELSE <<LimbBase - 1>> \o LimbsDec(Tail(limbs))

LimbsOdd(limbs) == limbs # <<>> /\ Head(limbs) % 2 = 1

\* bit number k (counted from 0) is set, for k below the bit length
LimbsBit(limbs, k) ==
    (limbs[k \div LimbBits + 1] \div Pow2(k % LimbBits)) % 2 = 1

\* limbs * 2^s
LimbsShiftLeft(limbs, s) ==
    IF limbs = <<>> THEN <<>>
    ELSE [j \in 1..(s \div LimbBits) |-> 0]
         \o LimbsMul(limbs, Pow2(s % LimbBits), 0)

\* some bit below bit number k (counted from 0) is set
LimbsAnyBelow(limbs, k) ==
    \/ \E j \in 1..(k \div LimbBits) : limbs[j] # 0
    \/ limbs[k \div LimbBits + 1] % Pow2(k % LimbBits) # 0

\* 2^s mod n
RECURSIVE Pow2Mod(_, _)
Pow2Mod(s, n) ==
    IF s = 0 THEN 1 % n
    ELSE LET r == Pow2Mod(s \div 2, n)
         IN  IF s % 2 = 0 THEN (r * r) % n ELSE (2 * r * r) % n

\* limbs mod a small n: the lower half plus LimbBase^h times the upper half
RECURSIVE LimbsMod(_, _)
LimbsMod(limbs, n) ==
    IF Len(limbs) = 0 THEN 0
    ELSE IF Len(limbs) = 1 THEN limbs[1] % n
    ELSE LET h == Len(limbs) \div 2
         IN  (LimbsMod(SubSeq(limbs, 1, h), n)
              + Pow2Mod(LimbBits * h, n)
                * LimbsMod(SubSeq(limbs, h + 1, Len(limbs)), n)) % n

\* quotient and remainder of limbs by a small k: long division, where the
\* remainder carried into limb j is that of the limbs above it
LimbsDivRem(limbs, k) ==
    LET d == [j \in 1..Len(limbs) |->
                 (LimbsMod(SubSeq(limbs, j + 1, Len(limbs)), k) * LimbBase
                  + limbs[j]) \div k]
    IN  [q |-> IF limbs # <<>> /\ d[Len(limbs)] = 0
               THEN SubSeq(d, 1, Len(limbs) - 1) ELSE SubSeq(d, 1, Len(limbs)),
         r |-> LimbsMod(limbs, k)]

\* ------------------------------------------------------ Python floats
\* A finite float with a non-negative integer value is [inf |-> FALSE, m, s]:
\* the value m * 2^s, where s = 0 and m < 2^53, or s > 0 and
\* 2^52 <= m <= 2^53.  [inf |-> TRUE, ...] is a result out of range.
FloatInf == [inf |-> TRUE, m |-> <<>>, s |-> 0]

FloatOf(mant, shift) ==
    IF LimbsBitLength(mant) + shift > MaxExponent THEN FloatInf
    ELSE [inf |-> FALSE, m |-> mant, s |-> shift]

\* The floats next to an exact natural: itself when it has at most 53
\* significant bits, else the two 53-bit neighbours.  C's pow() is accurate
\* to less than one unit in the last place and not always correctly rounded
\* (CPython gives 3**34.0 = 16677181699666570 where the nearest-even float is
\* ...568), so either neighbour is an outcome.
FloatNeighbours(limbs) ==
    LET s == LimbsBitLength(limbs) - MantissaBits
    IN  IF s <= 0 THEN {FloatOf(limbs, 0)}
        ELSE LET mant == LimbsShiftRight(
                             SubSeq(limbs, s \div LimbBits + 1, Len(limbs)),
                             s % LimbBits)
             IN  IF LimbsAnyBelow(limbs, s)
                 THEN {FloatOf(mant, s), FloatOf(LimbsInc(mant), s)}
                 ELSE {FloatOf(mant, s)}

\* The float nearest to an exact natural, ties to even: the result of a
\* correctly rounded operation.
FloatNearest(limbs) ==
    LET s == LimbsBitLength(limbs) - MantissaBits
    IN  IF s <= 0 THEN FloatOf(limbs, 0)
        ELSE LET mant == LimbsShiftRight(
                             SubSeq(limbs, s \div LimbBits + 1, Len(limbs)),
                             s % LimbBits)
                 up == /\ LimbsBit(limbs, s - 1)
                       /\ LimbsAnyBelow(limbs, s - 1) \/ LimbsOdd(mant)
             IN  FloatOf(IF up THEN LimbsInc(mant) ELSE mant, s)

\* int(x) of a finite float
FloatInt(x) == LimbsShiftLeft(x.m, x.s)

\* lines 260, 263: num / k for a num that k divides.  int / int and
\* float / int both give the float nearest to the quotient; int / int
\* raises OverflowError when that is out of range.
TrueDiv(limbs, k) == FloatNearest(LimbsDivRem(limbs, k).q)

\* float(g)**float(h) is C's pow(); a result out of range raises
\* OverflowError.  (g^h >= 2^(h * FloorLog2(g)) settles the large exponents
\* without computing the power.)
FloatPowSet(g, h) ==
    IF h * FloorLog2(g) >= MaxExponent THEN {FloatInf}
    ELSE FloatNeighbours(LimbsPow(g, h))

\* FloatPowSet over the candidates and periods of the model, computed once
PowTable ==
    {<<g, p, FloatPowSet(g, p \div 2)>> :
        g \in 3..MaxNum, p \in {q \in PeriodValues : q % 2 = 0}}

\* lines 301-310: guessFactor**(period / 2), for an even period
PowHalf(guessFactor, period) ==
    (CHOOSE t \in PowTable : t[1] = guessFactor /\ t[2] = period)[3]

\* x + 1 in float arithmetic (round to nearest, ties to even)
FloatAddOne(x) ==
    IF x.s = 0 THEN FloatOf(LimbsInc(x.m), 0)
    ELSE IF x.s = 1 /\ LimbsOdd(x.m) THEN FloatOf(LimbsInc(x.m), 1)
    ELSE x

\* x - 1 in float arithmetic, for x >= 1
FloatSubOne(x) ==
    IF x.s = 0 THEN FloatOf(LimbsDec(x.m), 0)
    ELSE IF x.s = 1 /\ LimbsBitLength(LimbsDec(x.m)) < MantissaBits
         THEN FloatOf(LimbsDec(LimbsMul(x.m, 2, 0)), 0)
    ELSE IF x.s = 1 /\ LimbsOdd(x.m) THEN FloatOf(LimbsDec(x.m), 1)
    ELSE x

\* x % n for a float x with an integer value: exact (fmod)
FloatMod(x, n) == (LimbsMod(x.m, n) * Pow2Mod(x.s, n)) % n

\* FactorFuncs.gcd(int(x), n) for n >= 1: gcd(a, n) = gcd(a mod n, n)
GcdFloat(x, n) == Gcd(FloatMod(x, n), n)


\* ---------------------------------------------------------- the inputs
\* 2^BigBits + 2 is halved to 2^(BigBits - 1) + 1, which no float holds; the
\* halves of the other two are out of the range of a float
BigNums ==
    {LimbsInc(LimbsInc(LimbsShiftLeft(<<1>>, BigBits))),
     LimbsShiftLeft(<<1>>, MaxExponent + 1),
     <<5>> \o Tail(LimbsShiftLeft(<<5>>, MaxExponent)),
     LimbsMul(LimbsInc(LimbsShiftLeft(<<1>>, MantissaBits)), 5, 0)}

Nums == {Limbs(x) : x \in (0..MaxNum) \cup ExtraNums} \cup BigNums

\* ----------------------------------------------------- list operations
\* (a list returned as it is)
KeepOnes(list) == list

\* lines 267-268 (275-276, 322-323, 331-332):
\* while 1 in factorization: factorization.remove(1)
StripOnes(list) == SelectSeq(list, LAMBDA x : x # 1)

\* sorted(): insert x into an ascending list
RECURSIVE Insert(_, _)
Insert(x, list) ==
    IF list = <<>> THEN <<x>>
    ELSE IF x <= Head(list) THEN <<x>> \o list
         ELSE <<Head(list)>> \o Insert(x, Tail(list))

\* lines 269, 277, 324, 333: sorted(factorization)
RECURSIVE Sorted(_)
Sorted(list) == IF list = <<>> THEN <<>> ELSE Insert(Head(list), Sorted(Tail(list)))

\* ----------------------------------------------------- the strip loops
\* lines 258, 261: num % k == 0
Divides(k, limbs) == LimbsMod(limbs, k) = 0

\* ------------------------------------------------------ the main loop
\* the cofactor is below LimbBase^2: Val(limbs) is a 32-bit integer
FitsInt(limbs) == Len(limbs) <= 2

\* line 264: for i in range(limit)
InRange(k, lim) == k < lim

\* line 280: randint(3, int(num) - 1) raises ValueError on an empty range
SampleFails(n) == n - 1 < 3

\* line 280: the values randint(3, int(num) - 1) can return
Candidates(n) == 3..(n - 1)

\* line 286: guessFactor != num and guessFactor % num != 0
CallsPeriod(guessFactor, n) == guessFactor # n /\ guessFactor % n # 0

\* line 300: period % 2 != 1
EvenPeriod(period) == period % 2 # 1

\* lines 301-302: both tests of the if, for x = guessFactor**(period / 2)
BothNonZero(x, n) ==
    FloatMod(FloatAddOne(x), n) # 0 /\ FloatMod(FloatSubOne(x), n) # 0

\* lines 311-319: the two extra pulls of gcd(guessFactor, num)
PullGuess(st, guessFactor) ==
    LET g1 == Gcd(guessFactor, st.num)
        n1 == st.num \div g1
        g2 == Gcd(guessFactor, n1)
    IN  [acc |-> st.acc \o <<g1, g2>>, num |-> n1 \div g2]

\* lines 303-319: the accumulator and the cofactor after the extraction,
\* for x = guessFactor**(period / 2)
Extracted(acc, n, guessFactor, period, x) ==
    LET f1 == GcdFloat(FloatAddOne(x), n)
        f2 == GcdFloat(FloatSubOne(x), n)
        n1 == n \div f1
        n2 == n1 \div GcdFloat(FloatSubOne(x), n1)
        st == [acc |-> acc \o <<f1, f2>>, num |-> n2]
    IN  IF period = 2 THEN PullGuess(st, guessFactor) ELSE st

\* ------------------------------------------------------------- Init
Init ==
    /\ N \in Nums
    /\ limit \in 0..MaxLimit
    /\ quick_compute \in BOOLEAN
    /\ pc = "strip2"
    /\ num = N
    /\ factorization = <<>>
    /\ i = 0
    /\ calls = 0
    /\ lastCall = <<<<>>, 0>>
    /\ lastPeriod = 1
    /\ extractions = 0
    /\ outcome = "start"
    /\ path = "none"
    /\ result = <<>>
    /\ NoCall

inputs == <<N, limit, quick_compute>>

\* ---------------------------------------------------------- actions
\* lines 259-260 (262-263): append k, then num /= k; an OverflowError of
\* the division leaves the function.  On num = 0 the loop never ends and the
\* list grows without bound: the model keeps at most MaxFactors entries of
\* that run.
Strip(k) ==
    /\ factorization' = IF num = <<>> /\ Len(factorization) >= MaxFactors
                        THEN factorization ELSE Append(factorization, k)
    /\ IF TrueDiv(num, k).inf
       THEN /\ pc' = "raised"
            /\ outcome' = "raised"
            /\ UNCHANGED num
       ELSE /\ num' = FloatInt(TrueDiv(num, k))
            /\ outcome' = "strip"
            /\ UNCHANGED pc
    /\ UNCHANGED <<inputs, gvars, i, calls, lastCall, lastPeriod, extractions,
                   path, result>>

\* lines 258-260: one iteration of while num % 2 == 0
StripTwo ==
    /\ pc = "strip2"
    /\ Divides(2, num)
    /\ Strip(2)

\* line 258: the loop condition fails
StripTwoDone ==
    /\ pc = "strip2"
    /\ ~Divides(2, num)
    /\ pc' = "strip5"
    /\ UNCHANGED <<inputs, gvars, num, factorization, i, calls, lastCall,
                   lastPeriod, extractions, outcome, path, result>>

\* lines 261-263: one iteration of while num % 5 == 0
StripFive ==
    /\ pc = "strip5"
    /\ Divides(5, num)
    /\ Strip(5)

\* line 261: the loop condition fails
StripFiveDone ==
    /\ pc = "strip5"
    /\ ~Divides(5, num)
    /\ pc' = "loop"
    /\ UNCHANGED <<inputs, gvars, num, factorization, i, calls, lastCall,
                   lastPeriod, extractions, outcome, path, result>>

\* lines 265-266: the cofactor is 1
CofactorOne ==
    /\ pc = "loop"
    /\ InRange(i, limit)
    /\ FitsInt(num)
    /\ Val(num) = 1
    /\ i' = i + 1
    /\ factorization' = Append(factorization, Val(num))
    /\ pc' = "return"
    /\ path' = "one"
    /\ outcome' = "return"
    /\ UNCHANGED <<inputs, gvars, num, calls, lastCall, lastPeriod, extractions,
                   result>>

\* lines 270-274: the cofactor is a perfect square
PerfectSquare ==
    /\ pc = "loop"
    /\ InRange(i, limit)
    /\ FitsInt(num)
    /\ Val(num) # 1
    /\ IsPerfectSquare(Val(num))
    /\ i' = i + 1
    /\ num' = Limbs(Val(num) \div (IntSqrt(Val(num)) * IntSqrt(Val(num))))
    /\ factorization' =
           factorization \o <<IntSqrt(Val(num)), IntSqrt(Val(num)), Val(num')>>
    /\ pc' = "return"
    /\ path' = "square"
    /\ outcome' = "return"
    /\ UNCHANGED <<inputs, gvars, calls, lastCall, lastPeriod, extractions,
                   result>>

\* the iteration gets as far as line 278
Samples ==
    /\ pc = "loop"
    /\ InRange(i, limit)
    /\ FitsInt(num)
    /\ Val(num) # 1
    /\ ~IsPerfectSquare(Val(num))

\* (an error that leaves the function)
RetryEscapes ==
    /\ i' = i + 1
    /\ pc' = "raised"
    /\ UNCHANGED <<inputs, gvars, num, factorization, extractions, path, result>>

\* lines 284, 299 (continue) and 325-329 (except OverflowError): the error
\* is caught and the loop goes on with its next iteration
Retry ==
    /\ i' = i + 1
    /\ UNCHANGED <<inputs, gvars, pc, num, factorization, extractions, path, result>>

\* (a flag that is never looked at)
NeverQuick == FALSE

\* line 320: if quick_compute
QuickReturn == quick_compute

\* lines 279-284: randint raises ValueError, continue
SamplingError ==
    /\ Samples
    /\ SampleFails(Val(num))
    /\ Retry
    /\ outcome' = "sampling_error"
    /\ UNCHANGED <<calls, lastCall, lastPeriod>>

\* lines 288-299: the period function raises ValueError, continue
ValidationError ==
    /\ Samples
    /\ ~SampleFails(Val(num))
    /\ \E guessFactor \in Candidates(Val(num)) :
        /\ CallsPeriod(guessFactor, Val(num))
        /\ lastCall' = <<num, guessFactor>>
    /\ lastPeriod' = 1
    /\ calls' = calls + 1
    /\ Retry
    /\ outcome' = "validation_error"

\* lines 300-301 and 325-329: guessFactor**(period / 2) raises
\* OverflowError, caught at the end of the iteration
Overflow ==
    /\ Samples
    /\ ~SampleFails(Val(num))
    /\ \E guessFactor \in Candidates(Val(num)), period \in PeriodValues :
        /\ CallsPeriod(guessFactor, Val(num))
        /\ EvenPeriod(period)
        /\ FloatInf \in PowHalf(guessFactor, period)
        /\ lastCall' = <<num, guessFactor>>
        /\ lastPeriod' = period
    /\ calls' = calls + 1
    /\ Retry
    /\ outcome' = "overflow"

\* lines 286 and 300-302: no period is asked for, or the period is odd, or
\* one of the two tests of line 301 fails: nothing is appended
NoExtraction ==
    /\ Samples
    /\ ~SampleFails(Val(num))
    /\ \E guessFactor \in Candidates(Val(num)) :
        IF CallsPeriod(guessFactor, Val(num))
        THEN /\ \E period \in PeriodValues :
                    /\ IF EvenPeriod(period)
                       THEN \E x \in PowHalf(guessFactor, period) :
                               ~x.inf /\ ~BothNonZero(x, Val(num))
                       ELSE TRUE
                    /\ lastPeriod' = period
             /\ calls' = calls + 1
             /\ lastCall' = <<num, guessFactor>>
        ELSE UNCHANGED <<calls, lastCall, lastPeriod>>
    /\ i' = i + 1
    /\ outcome' = "no_extraction"
    /\ UNCHANGED <<inputs, gvars, pc, num, factorization, extractions, path, result>>

\* lines 300-319 with quick_compute off: the factors are appended and the
\* cofactor divided
Extract ==
    /\ Samples
    /\ ~SampleFails(Val(num))
    /\ ~QuickReturn
    /\ \E guessFactor \in Candidates(Val(num)), period \in PeriodValues :
        /\ CallsPeriod(guessFactor, Val(num))
        /\ EvenPeriod(period)
        /\ \E x \in PowHalf(guessFactor, period) :
            /\ ~x.inf
            /\ BothNonZero(x, Val(num))
            /\ factorization' =
                   Extracted(factorization, Val(num), guessFactor, period, x).acc
            /\ num' = Limbs(Extracted(factorization, Val(num), guessFactor,
                                      period, x).num)
        /\ lastCall' = <<num, guessFactor>>
        /\ lastPeriod' = period
    /\ calls' = calls + 1
    /\ extractions' = extractions + 1
    /\ i' = i + 1
    /\ outcome' = "extraction"
    /\ UNCHANGED <<inputs, gvars, pc, path, result>>

\* lines 300-321 with quick_compute on: after the extraction the cofactor
\* is appended and the function returns
ExtractQuick ==
    /\ Samples
    /\ ~SampleFails(Val(num))
    /\ QuickReturn
    /\ \E guessFactor \in Candidates(Val(num)), period \in PeriodValues :
        /\ CallsPeriod(guessFactor, Val(num))
        /\ EvenPeriod(period)
        /\ \E x \in PowHalf(guessFactor, period) :
            /\ ~x.inf
            /\ BothNonZero(x, Val(num))
            /\ num' = Limbs(Extracted(factorization, Val(num), guessFactor,
                                      period, x).num)
            /\ factorization' =
                   Append(Extracted(factorization, Val(num), guessFactor,
                                    period, x).acc,
                          Val(num'))
        /\ lastCall' = <<num, guessFactor>>
        /\ lastPeriod' = period
    /\ calls' = calls + 1
    /\ extractions' = extractions + 1
    /\ i' = i + 1
    /\ pc' = "return"
    /\ path' = "quick"
    /\ outcome' = "extraction"
    /\ UNCHANGED <<inputs, gvars, result>>

\* lines 264-302 for a cofactor of more than two limbs that is 2 modulo 3
\* (so no perfect square): the candidate is one of 3..MaxNum, the period
\* function raises ValueError or returns an odd period, and the iteration
\* ends with nothing appended.  The model follows such a run no further
\* than these iterations.
BigIteration ==
    /\ pc = "loop"
    /\ InRange(i, limit)
    /\ ~FitsInt(num)
    /\ LimbsMod(num, 3) = 2
    /\ \E guessFactor \in Candidates(MaxNum + 1) :
        /\ lastCall' = <<num, guessFactor>>
    /\ \/ /\ lastPeriod' = 1
          /\ outcome' = "validation_error"
       \/ /\ \E period \in PeriodValues :
                ~EvenPeriod(period) /\ lastPeriod' = period
          /\ outcome' = "no_extraction"
    /\ calls' = calls + 1
    /\ Retry

\* (an exhaustion that forgets the cofactor)
ExhaustedDropsCofactor ==
    /\ pc = "loop"
    /\ ~InRange(i, limit)
    /\ pc' = "return"
    /\ path' = "exhausted"
    /\ outcome' = "return"
    /\ UNCHANGED <<inputs, gvars, num, factorization, i, calls, lastCall,
                   lastPeriod, extractions, result>>

\* line 330: the loop has run limit times
Exhausted ==
    /\ pc = "loop"
    /\ ~InRange(i, limit)
    /\ FitsInt(num)
    /\ factorization' = Append(factorization, Val(num))
    /\ pc' = "return"
    /\ path' = "exhausted"
    /\ outcome' = "return"
    /\ UNCHANGED <<inputs, gvars, num, i, calls, lastCall, lastPeriod,
                   extractions, result>>

\* lines 267-269, 275-277, 322-324, 331-333: remove the 1s, return sorted
Return ==
    /\ pc = "return"
    /\ factorization' = StripOnes(factorization)
    /\ result' = Sorted(factorization')
    /\ pc' = "done"
    /\ UNCHANGED <<inputs, gvars, num, i, calls, lastCall, lastPeriod,
                   extractions, outcome, path>>

Next ==
    \/ StripTwo
    \/ StripTwoDone
    \/ StripFive
    \/ StripFiveDone
    \/ CofactorOne
    \/ PerfectSquare
    \/ SamplingError
    \/ ValidationError
    \/ Overflow
    \/ NoExtraction
    \/ Extract
    \/ ExtractQuick
    \/ BigIteration
    \/ Exhausted
    \/ Return


Spec == Init /\ [][Next]_<<vars, gvars>>


\* ======================================================= the gate library
\* ------------------------------------------------------------ bounds
\* c_amod15 / c_amodb: power ranges over 0..MaxPower
MaxPower == 3
\* c_amod15 / c_amodb: the base a ranges over 0..MaxBase
MaxBase == 21
\* c_amodb: the modulus b ranges over 1..MaxModulus
MaxModulus == 21
\* qubitFactoringPeriodFinding: n_count ranges over 1..MaxCount
MaxCount == 8
\* get_ket / get_bra: at most MaxArgs positional arguments, symbol strings of
\* at most MaxArgs symbols, integers 0..MaxInt
MaxArgs == 3
MaxInt == 9
\* quantum_not_gate_matrix, identity_gate, identityGate: numQubits ranges
\* over 0..MaxQubits
MaxQubits == 4
\* the interpreter's recursion limit, in calls of identity_gate_helper
RecursionLimit == 8
\* convert_vector_to_matrix, convert_matrix_to_vector: vectors of 1..MaxDim
\* rows and diagonal matrices of that size, entries 0..MaxEntry
MaxDim == 3
MaxEntry == 2
\* applied_swap_gate: states of SwapQubits qubits, args among 0..SwapQubits-1
SwapQubits == 4

\* ------------------------------------------------------ numpy arrays
\* A two-dimensional array is a function from the row index 0..r-1 to rows,
\* a row (and a one-dimensional array) a function from 0..c-1 to entries.
\* A Python number that is not an array is the 1-tuple of its value.

\* an array holds its entries: they are computed once, when it is built
ndarray(A) == IF A = A THEN A ELSE <<>>

scalar(x) == <<x>>
IsScalar(v) == DOMAIN v = {1}

\* np.array([[...], ...]) of a list of rows
array(rows) ==
    ndarray([r \in 0..Len(rows) - 1 |->
                [c \in 0..Len(rows[r + 1]) - 1 |-> rows[r + 1][c + 1]]])

\* shape[0] and shape[1]
Rows(A) == Cardinality(DOMAIN A)
Cols(A) == Cardinality(DOMAIN A[0])

\* np.zeros([r, c]), np.zeros([n]), np.identity(n)
zeros(r, c) == ndarray([x \in 0..r - 1 |-> [y \in 0..c - 1 |-> 0]])
zeros1(n) == ndarray([x \in 0..n - 1 |-> 0])
identity(n) ==
    ndarray([x \in 0..n - 1 |-> [y \in 0..n - 1 |-> IF x = y THEN 1 ELSE 0]])

\* sum of the first n entries of a one-dimensional array
RECURSIVE SumTo(_, _)
SumTo(v, n) == IF n = 0 THEN 0 ELSE v[n - 1] + SumTo(v, n - 1)

\* np.kron(A, B); np.kron(A, 1) is A and np.kron(1, B) is B
kron(A, B) ==
    IF IsScalar(B) THEN A
    ELSE IF IsScalar(A) THEN B
    ELSE ndarray([x \in 0..Rows(A) * Rows(B) - 1 |->
                    [y \in 0..Cols(A) * Cols(B) - 1 |->
                        A[x \div Rows(B)][y \div Cols(B)]
                        * B[x % Rows(B)][y % Cols(B)]]])

\* np.dot(A, B) of two-dimensional arrays
dot(A, B) ==
    ndarray([x \in 0..Rows(A) - 1 |->
                [y \in 0..Cols(B) - 1 |->
                    SumTo([k \in 0..Cols(A) - 1 |-> A[x][k] * B[k][y]],
                          Cols(A))]])

\* np.dot(v, B) of a one-dimensional array and a two-dimensional one
vdot(v, B) ==
    ndarray([y \in 0..Cols(B) - 1 |->
                SumTo([k \in 0..Rows(B) - 1 |-> v[k] * B[k][y]], Rows(B))])

\* np.diag(v): the diagonal matrix of a one-dimensional array
diag(v) ==
    ndarray([x \in DOMAIN v |-> [y \in DOMAIN v |-> IF x = y THEN v[x] ELSE 0]])

\* A + B, A - B, A.T
plus(A, B) == ndarray([x \in DOMAIN A |-> [y \in DOMAIN A[x] |-> A[x][y] + B[x][y]]])
minus(A, B) == ndarray([x \in DOMAIN A |-> [y \in DOMAIN A[x] |-> A[x][y] - B[x][y]]])
transpose(A) ==
    ndarray([y \in 0..Cols(A) - 1 |-> [x \in 0..Rows(A) - 1 |-> A[x][y]]])

\* A complex array is the pair of its real and imaginary parts.
complex(A) == [re |-> A, im |-> zeros(Rows(A), Cols(A))]
\* 1j * A of a real array A
timesJ(A) == [re |-> zeros(Rows(A), Cols(A)), im |-> A]
ckron(A, U) == [re |-> kron(A, U.re), im |-> kron(A, U.im)]
cplus(U, V) == [re |-> plus(U.re, V.re), im |-> plus(U.im, V.im)]

\* ------------------------------------------- results of a library function
Returns(v) == [error |-> "none", value |-> v]
Raises(e) == [error |-> e, value |-> <<>>]

\* ------------------------------------------------ QuantumCircuitMatrix
\* line 494
qubits_to_bits(numQubits) == Pow2(numQubits)

\* lines 533-539: args are the diagonal entries to set
get_qubit_matrix(numQubits, args) ==
    ndarray([x \in 0..qubits_to_bits(numQubits) - 1 |->
                [y \in 0..qubits_to_bits(numQubits) - 1 |->
                    IF x = y /\ \/ \E k \in 1..Len(args) : args[k] = x
                                \/ Len(args) = 0 /\ x = 0
                    THEN 1 ELSE 0]])

\* lines 553-559: an index beyond the row raises IndexError
get_qubit_vector(numQubits, args) ==
    IF \E k \in 1..Len(args) : args[k] >= qubits_to_bits(numQubits)
    THEN Raises("IndexError")
    ELSE Returns(transpose(array(<<[y \in 1..qubits_to_bits(numQubits) |->
             IF \/ \E k \in 1..Len(args) : args[k] = y - 1
                \/ Len(args) = 0 /\ y = 1
             THEN 1 ELSE 0]>>)))

\* lines 67-68 and 138-141: the primitive bras and kets
zero_bra == array(<<<<1, 0>>>>)
one_bra == array(<<<<0, 1>>>>)
zero_ket == array(<<<<1>>, <<0>>>>)
one_ket == array(<<<<0>>, <<1>>>>)

\* the symbols of a qubit_string: "x" is any symbol get_bra and get_ket do
\* not support ("+" and "-", whose entries are 1 / sqrt(2), are not drawn)
Symbols == {"0", "1", "x"}

\* lines 101-112 and 174-185
Primitive(side, sym) ==
    IF side = "bra" THEN (IF sym = "0" THEN zero_bra ELSE one_bra)
    ELSE (IF sym = "0" THEN zero_ket ELSE one_ket)

\* lines 101-113 and 174-186: one symbol of the loop over qubit_string
SymbolStep(side, sym, before) ==
    IF before.error # "none" THEN before
    ELSE IF sym \notin {"0", "1"} THEN Raises("ValueError")
    ELSE Returns(kron(Primitive(side, sym), before.value))

\* lines 99-113 and 172-186: braTEMP / ketTEMP after the first k symbols
RECURSIVE SymbolBlock(_, _, _)
SymbolBlock(side, qubit_string, k) ==
    IF k = 0 THEN Returns(scalar(1))
    ELSE SymbolStep(side, qubit_string[k], SymbolBlock(side, qubit_string, k - 1))

\* lines 92-95 and 165-168: the while loop from num_qubits
RECURSIVE NumQubits(_, _)
NumQubits(num_qubits, argv) ==
    IF qubits_to_bits(num_qubits) < argv THEN NumQubits(num_qubits + 1, argv)
    ELSE num_qubits

\* lines 114-117 and 187-190: the block of the qubit_string, temp, is
\* tensored on the left of the positional block
Joined(positional, qubit_string, temp) ==
    IF Len(qubit_string) = 0 THEN positional
    ELSE IF temp.error # "none" THEN temp
    ELSE IF IsScalar(positional.value) THEN temp
    ELSE Returns(kron(temp.value, positional.value))

\* lines 118-120 and 191-193: a call that built nothing returns the zero state
Defaulted(side, joined) ==
    IF joined.error # "none" THEN joined
    ELSE IF IsScalar(joined.value) THEN Returns(Primitive(side, "0"))
    ELSE joined

\* lines 98-120 and 171-193: the call with a qubit_string, on top of the
\* positional block
WithString(side, positional, qubit_string) ==
    IF positional.error # "none" THEN positional
    ELSE Defaulted(side,
             Joined(positional, qubit_string,
                    SymbolBlock(side, qubit_string, Len(qubit_string))))

\* lines 77 and 150: the recursive call on a positional str has no
\* positional arguments
OfString(side, qubit_string) ==
    WithString(side, Returns(scalar(1)), qubit_string)

\* bra = np.kron(bra, block): the block on the right of the blocks before
TensoredRight(block, before) ==
    IF block.error # "none" THEN block
    ELSE Returns(kron(before.value, block.value))

\* lines 78, 83, 88, 97 and 151, 156, 161, 170: bra = np.kron(block, bra)
Tensored(block, before) ==
    IF block.error # "none" THEN block
    ELSE Returns(kron(block.value, before.value))

\* lines 74-97 and 147-170: one positional argument, [int |-> v] or
\* [str |-> symbols], in front of the block built so far
PositionalStep(side, argv, before) ==
    IF before.error # "none" THEN before
    ELSE IF "str" \in DOMAIN argv THEN Tensored(OfString(side, argv.str), before)
    ELSE IF argv.int = 0 THEN Tensored(Returns(Primitive(side, "0")), before)
    ELSE IF argv.int = 1 THEN Tensored(Returns(Primitive(side, "1")), before)
    ELSE Tensored(get_qubit_vector(NumQubits(1, argv.int), <<argv.int>>), before)

\* lines 73-97 and 146-170: the positional block after the arguments
\* args[k], ..., args[Len(args)], taken last first
RECURSIVE PositionalBlock(_, _, _)
PositionalBlock(side, args, k) ==
    IF k > Len(args) THEN Returns(scalar(1))
    ELSE PositionalStep(side, args[k], PositionalBlock(side, args, k + 1))

\* lines 52-120
get_bra(args, qubit_string) ==
    WithString("bra", PositionalBlock("bra", args, 1), qubit_string)

\* lines 123-193
get_ket(args, qubit_string) ==
    WithString("ket", PositionalBlock("ket", args, 1), qubit_string)

\* the positional call get_bra(x) / get_ket(x) of a bit, and of a str
Bit(x) == <<[int |-> x]>>
Str(s) == <<[str |-> s]>>

\* get_bra(x), get_ket(x) and get_bra("..."), get_ket("...") as the gates
\* call them
bra(x) == get_bra(Bit(x), <<>>).value
ket(x) == get_ket(Bit(x), <<>>).value
bras(s) == get_bra(Str(s), <<>>).value
kets(s) == get_ket(Str(s), <<>>).value

\* lines 252-256
Pauli_X_Gate == plus(kron(bra(0), ket(1)), kron(ket(0), bra(1)))

\* lines 272-276
Pauli_Y_Gate == timesJ(minus(kron(ket(1), bra(0)), kron(ket(0), bra(1))))

\* the sum of the two products
Pauli_Z_GateSum == plus(kron(ket(0), bra(0)), kron(ket(1), bra(1)))

\* lines 292-296
Pauli_Z_Gate == minus(kron(ket(0), bra(0)), kron(ket(1), bra(1)))

\* lines 313-315: the sum of the three products
ControlledSum(zero, one, U) ==
    cplus(cplus(complex(kron(zero, zero)), complex(kron(zero, one))),
          ckron(one, U))

\* lines 309-315: U is a complex array
CU_Gate(U) == ControlledSum(kron(bra(0), ket(0)), kron(bra(1), ket(1)), U)

\* lines 327-328, 339-340, 351-352
CNOT_Gate == CU_Gate(complex(Pauli_X_Gate))
CY_Gate == CU_Gate(Pauli_Y_Gate)
CZ_Gate == CU_Gate(complex(Pauli_Z_Gate))

\* lines 226-227, 358-359, 371-372, 383-384: the retained constants
one_qubit_identity_gate == array(<<<<1, 0>>, <<0, 1>>>>)
Pauli_X_gate == array(<<<<0, 1>>, <<1, 0>>>>)
Pauli_Y_gate == timesJ(array(<<<<0, -1>>, <<1, 0>>>>))
Pauli_Z_gate == array(<<<<1, 0>>, <<0, -1>>>>)

\* np.diag([1, 0]) and np.diag([0, 1])
diag10 == diag([k \in 0..1 |-> 1 - k])
diag01 == diag([k \in 0..1 |-> k])

\* lines 396-397, 404-405, 409-410
CNOT_gate ==
    plus(kron(diag10, one_qubit_identity_gate), kron(diag01, Pauli_X_gate))
CY_gate ==
    cplus(complex(kron(diag10, one_qubit_identity_gate)),
          ckron(diag01, Pauli_Y_gate))
CZ_gate ==
    plus(kron(diag10, one_qubit_identity_gate), kron(diag01, Pauli_Z_gate))

\* lines 462-475
Swap_Gate ==
    plus(plus(plus(kron(kets(<<"0", "0">>), bras(<<"0", "0">>)),
                   kron(kets(<<"1", "0">>), bras(<<"0", "1">>))),
              kron(kets(<<"0", "1">>), bras(<<"1", "0">>))),
         kron(kets(<<"1", "1">>), bras(<<"1", "1">>)))

\* lines 478-481
swap_gate ==
    array(<<<<1, 0, 0, 0>>, <<0, 0, 1, 0>>, <<0, 1, 0, 0>>, <<0, 0, 0, 1>>>>)

\* np.zeros in the place of np.identity
zeroGate(numQubits) ==
    zeros(qubits_to_bits(numQubits), qubits_to_bits(numQubits))

\* lines 518-519
identityGate(numQubits) == identity(qubits_to_bits(numQubits))

\* lines 674-687; np.array([]) is the empty array
RECURSIVE quantum_not_gate_matrix(_)
quantum_not_gate_matrix(numQubits) ==
    IF numQubits = 0 THEN <<>>
    ELSE IF numQubits = 1 THEN Pauli_X_gate
    ELSE IF numQubits = 2 THEN CNOT_gate
    ELSE plus(kron(diag10, identityGate(numQubits - 1)),
              kron(diag01, quantum_not_gate_matrix(numQubits - 1)))

\* lines 211-216: the two single-qubit projectors
zero_prod == kron(get_ket(Bit(0), <<>>).value, get_bra(Bit(0), <<>>).value)
one_prod == kron(get_ket(Bit(1), <<>>).value, get_bra(Bit(1), <<>>).value)

\* lines 217-221: the list built from the list of the recursive call
HelperList(list) ==
    [k \in 1..2 * Len(list) |->
        kron(list[(k + 1) \div 2], IF k % 2 = 1 THEN zero_prod ELSE one_prod)]

\* line 206: sum(list)
RECURSIVE SumList(_, _)
SumList(list, n) ==
    IF n = 1 THEN list[1] ELSE plus(SumList(list, n - 1), list[n])

\* lines 765-768: swapping_gate_matrix after the four updates at x and y
Exchanged(gate, x, y) ==
    ndarray([u \in DOMAIN gate |-> [v \in DOMAIN gate |->
                gate[u][v]
                + (IF (u = x /\ v = y) \/ (u = y /\ v = x) THEN 1 ELSE 0)
                - (IF u = x /\ v = x THEN 1 ELSE 0)
                - (IF u = y /\ v = y THEN 1 ELSE 0)]])

\* lines 763-770: one pair; st is
\* [gate |-> swapping_gate_matrix, swapped |-> swapped_qubit_matrix]
SwapPair(st, x, y) ==
    IF st.gate[x][x] # 0 /\ st.gate[y][y] # 0
    THEN [gate |-> Exchanged(st.gate, x, y),
          swapped |-> vdot(st.swapped, Exchanged(st.gate, x, y))]
    ELSE st

\* lines 760-770: the loop over the pairs of args, from pair argv on
RECURSIVE SwapPairs(_, _, _)
SwapPairs(st, args, argv) ==
    IF argv >= Len(args) \div 2 THEN st
    ELSE SwapPairs(SwapPair(st, args[argv + 1] * 2 + 1, args[argv + 2] * 2),
                   args, argv + 1)

\* lines 746-748: the diagonal of qubits
Diagonal(qubits) ==
    ndarray([bits \in 0..Rows(qubits) - 1 |-> qubits[bits][bits]])

\* lines 742-774, for a square array qubits and at least one pair of args
\* (the way c_amod15 and c_amodb call it)
applied_swap_gate(qubits, args) ==
    diag(SwapPairs([gate |-> identity(Rows(qubits)), swapped |-> Diagonal(qubits)],
                   args, 0).swapped)

\* the first column of the array, whatever its shape
first_column(qubit_matrix) ==
    ndarray([x \in 0..Rows(qubit_matrix) - 1 |-> [y \in 0..0 |-> qubit_matrix[x][0]]])

\* lines 813-817: a column is returned as it is, of any other array the
\* column of the row sums
convert_matrix_to_vector(qubit_matrix) ==
    IF Cols(qubit_matrix) = 1 THEN qubit_matrix
    ELSE transpose(array(<<[y \in 1..Rows(qubit_matrix) |->
             SumTo(qubit_matrix[y - 1], Cols(qubit_matrix))]>>))

\* lines 827-832: a square array is returned as it is, of any other array
\* the first column becomes the diagonal
convert_vector_to_matrix(qubit_vector) ==
    IF Rows(qubit_vector) = Cols(qubit_vector) THEN qubit_vector
    ELSE ndarray([q \in 0..Rows(qubit_vector) - 1 |->
                     [y \in 0..Rows(qubit_vector) - 1 |->
                         IF q = y THEN qubit_vector[q][0] ELSE 0]])

\* --------------------------------------------- ShorFactoringAlgorithm
\* the whitelist of c_amod15 without its last base
Whitelist15Short == {2, 7, 8, 11}

\* line 73
Whitelist15 == {2, 7, 8, 11, 13}

\* lines 118, 131: (b - 1) / 2 and (b - 1) / 2 + 1 are floats; an int a
\* equals one of them only when b is odd
Halves(b) ==
    IF (b - 1) % 2 = 0 THEN {(b - 1) \div 2, (b - 1) \div 2 + 1} ELSE {}

\* the whitelist of c_amodb with a base that divides some odd moduli
WhitelistWithThree(b) == {2, 3, b - 4, b - 2} \cup Halves(b)

\* line 118
Whitelist(b) == {2, b - 4, b - 2} \cup Halves(b)

\* lines 98-101 and 144-147
AppliedPauliX(matrix) ==
    dot(kron(Pauli_X_gate, identity(Rows(matrix) \div Rows(Pauli_X_gate))),
        matrix)

\* three (two) consecutive calls of applied_swap_gate
Swapped(matrix, pairs) ==
    IF Len(pairs) = 2
    THEN applied_swap_gate(applied_swap_gate(matrix, pairs[1]), pairs[2])
    ELSE applied_swap_gate(
             applied_swap_gate(applied_swap_gate(matrix, pairs[1]), pairs[2]),
             pairs[3])

\* an if statement of the loop body: the swaps, or the Pauli-X
SwapsIf(taken, matrix, pairs) == IF taken THEN Swapped(matrix, pairs) ELSE matrix
PauliXIf(taken, matrix) == IF taken THEN AppliedPauliX(matrix) ELSE matrix

\* the number of swaps and Pauli-X applications of one iteration
Steps(first, second, third, fourth) ==
    (IF first THEN 3 ELSE 0) + (IF second THEN 3 ELSE 0)
    + (IF third THEN 2 ELSE 0) + (IF fourth THEN 1 ELSE 0)

\* the four if statements of the loop body, one after the other
Body(first, second, third, fourth, matrix) ==
    PauliXIf(fourth,
        SwapsIf(third,
            SwapsIf(second,
                SwapsIf(first, matrix, <<<<0, 1>>, <<1, 2>>, <<2, 3>>>>),
                <<<<2, 3>>, <<1, 2>>, <<0, 1>>>>),
            <<<<1, 3>>, <<0, 2>>>>))

\* lines 78-101: one iteration of the loop of c_amod15; steps counts the
\* swaps and Pauli-X applications
Iteration15(a, matrix) ==
    [matrix |-> Body(a \in {2, 13}, a \in {7, 8}, a = 11, a \in {7, 11, 13}, matrix),
     steps |-> Steps(a \in {2, 13}, a \in {7, 8}, a = 11, a \in {7, 11, 13})]

\* (the Pauli-X step without the base (b - 1) / 2)
PauliBasesShort(b) == {b - 4, b - 2}

\* line 144: a in [(b - 1) / 2, b - 4, b - 2]
PauliBases(b) ==
    {b - 4, b - 2} \cup (IF (b - 1) % 2 = 0 THEN {(b - 1) \div 2} ELSE {})

\* lines 124-147: one iteration of the loop of c_amodb
IterationB(a, b, matrix) ==
    [matrix |-> Body(a \in {2, b - 2}, a \in Halves(b), a = b - 4,
                     a \in PauliBases(b), matrix),
     steps |-> Steps(a \in {2, b - 2}, a \in Halves(b), a = b - 4,
                     a \in PauliBases(b))]

\* lines 702-713: entry (x, y) of the transform is quantum_phase^(x * y) /
\* sqrt(numBits), and quantum_phase^numBits = 1
QFTExponent(numBits, x, y) == (x * y) % numBits

\* lines 167 and 175: row r of the inverse holds quantum_phase^(-r * y) /
\* sqrt(numBits); the sum of its entries, times sqrt(numBits), is the
\* geometric series of a root of unity
InverseRowSum(numBits, r) ==
    IF QFTExponent(numBits, r, 1) = 0 THEN numBits ELSE 0

\* lines 172-175: the sum of all entries of kron(qc, identity) . QFT_dagger,
\* times sqrt(numBits); diagonal is the diagonal of qc
Contracted(diagonal, n_count) ==
    SumTo([r \in 0..qubits_to_bits(n_count) - 1 |->
              diagonal[r \div (qubits_to_bits(n_count) \div n_count)]
              * InverseRowSum(qubits_to_bits(n_count), r)],
          qubits_to_bits(n_count))

\* int(total / sqrt(numBits) / 4) of the exact quotient
Truncated(total, numBits) ==
    CHOOSE k \in 0..total :
        /\ 16 * k * k * numBits <= total * total
        /\ 16 * (k + 1) * (k + 1) * numBits > total * total

\* line 175: int(sum.real / 4).  The sum is total / sqrt(numBits) up to the
\* rounding of inv and of the additions: where it is a positive multiple of 4
\* the truncation gives the quotient or one less.
Periods(total, numBits) ==
    IF /\ Truncated(total, numBits) > 0
       /\ 16 * Truncated(total, numBits) * Truncated(total, numBits) * numBits
              = total * total
    THEN {Truncated(total, numBits) - 1, Truncated(total, numBits)}
    ELSE {Truncated(total, numBits)}

\* ------------------------------------------------------------ the calls
Builders == {"c_amod15", "c_amodb"}
Basis == {"get_bra", "get_ket"}
GateNames == {"Pauli_X_Gate", "Pauli_Y_Gate", "Pauli_Z_Gate", "CNOT_Gate",
              "CY_Gate", "CZ_Gate", "Swap_Gate"}

\* the symbol strings of at most MaxArgs symbols
Strings == UNION {[1..n -> Symbols] : n \in 0..MaxArgs}
\* positional arguments: at most MaxArgs bits, or one integer, or one str
BitArgs == UNION {[1..n -> {[int |-> 0], [int |-> 1]}] : n \in 0..MaxArgs}
IntArgs == {Bit(v) : v \in 0..MaxInt}
StrArgs == {Str(s) : s \in Strings}

\* the d x 1 column vectors and the diagonal d x d matrices
ColumnVectors ==
    UNION {{transpose(array(<<[y \in 1..d |-> e[y]]>>)) : e \in [1..d -> 0..MaxEntry]} :
           d \in 1..MaxDim}
DiagonalMatrices ==
    UNION {{diag([x \in 0..d - 1 |-> e[x + 1]]) : e \in [1..d -> 0..MaxEntry]} :
           d \in 1..MaxDim}

\* the diagonal states of SwapQubits qubits: a single 1 on the diagonal, or
\* the diagonal 1, 2, 3, ...
SwapStates ==
    {diag([x \in 0..qubits_to_bits(SwapQubits) - 1 |-> IF x = k THEN 1 ELSE 0]) :
        k \in 0..qubits_to_bits(SwapQubits) - 1}
    \cup {diag([x \in 0..qubits_to_bits(SwapQubits) - 1 |-> x + 1])}

\* one pair, or two pairs, of pairwise distinct qubits
SwapArgs ==
    {args \in [1..2 -> 0..SwapQubits - 1] \cup [1..4 -> 0..SwapQubits - 1] :
        \A j, k \in DOMAIN args : j # k => args[j] # args[k]}

Calls ==
    [f : {"c_amod15"}, a : 0..MaxBase, power : 0..MaxPower]
    \cup [f : {"c_amodb"}, a : 0..MaxBase, power : 0..MaxPower, b : 1..MaxModulus]
    \cup [f : {"qubitFactoringPeriodFinding"}, num : {15, MaxModulus},
          a : 0..MaxBase, n_count : 1..MaxCount]
    \cup [f : Basis, args : BitArgs \cup IntArgs, qubit_string : Strings]
    \cup [f : Basis, args : StrArgs, qubit_string : {<<>>}]
    \cup [f : GateNames]
    \cup [f : {"quantum_not_gate_matrix", "identity_gate", "identityGate"},
          numQubits : 0..MaxQubits]
    \cup [f : {"convert_vector_to_matrix"}, qubit_vector : ColumnVectors]
    \cup [f : {"convert_matrix_to_vector"}, qubit_matrix : DiagonalMatrices]
    \cup [f : {"applied_swap_gate"}, qubits : SwapStates, args : SwapArgs]

\* the orchestrator is not running
NoRun ==
    /\ N = <<>>
    /\ limit = 0
    /\ quick_compute = FALSE
    /\ pc = "idle"
    /\ num = <<>>
    /\ factorization = <<>>
    /\ i = 0
    /\ calls = 0
    /\ lastCall = <<<<>>, 0>>
    /\ lastPeriod = 1
    /\ extractions = 0
    /\ outcome = "start"
    /\ path = "none"
    /\ result = <<>>

GateInit ==
    /\ call \in Calls
    /\ qpc = "called"
    /\ matrix_of_qubits = <<>>
    /\ iteration = 0
    /\ work = 0
    /\ qIndex = 0
    /\ qc = <<>>
    /\ frames = <<>>
    /\ value = <<>>
    /\ error = "none"
    /\ NoRun

\* the call returns v, or the exception e leaves it
Finish(r) ==
    /\ value' = r.value
    /\ error' = r.error
    /\ qpc' = IF r.error = "none" THEN "returned" ELSE "raised"

\* the arguments of the builder call in progress: the call itself, or the
\* call of line 171, c_amodb(a, int(2**q), num)
InPeriod == call.f = "qubitFactoringPeriodFinding"
Fifteen == call.f = "c_amod15"
Modulus == IF InPeriod THEN call.num ELSE IF Fifteen THEN 15 ELSE call.b
Power == IF InPeriod THEN Pow2(qIndex) ELSE call.power
Whitelisted ==
    IF Fifteen THEN call.a \in Whitelist15 ELSE call.a \in Whitelist(Modulus)

\* c_amod15 or c_amodb is entered
EnterBuilder ==
    /\ qpc = "called"
    /\ call.f \in Builders
    /\ qpc' = "validate"
    /\ UNCHANGED <<vars, call, matrix_of_qubits, iteration, work, qIndex, qc,
                   frames, value, error>>

\* lines 73-74 and 118-120: a is not in the whitelist
Rejected ==
    /\ qpc = "validate"
    /\ ~Whitelisted
    /\ Finish(Raises("ValueError"))
    /\ UNCHANGED <<vars, call, matrix_of_qubits, iteration, work, qIndex, qc,
                   frames>>

\* lines 75-76 and 121-122: a is in the whitelist
Accepted ==
    /\ qpc = "validate"
    /\ Whitelisted
    /\ matrix_of_qubits' = get_qubit_matrix(4, <<>>)
    /\ iteration' = 0
    /\ work' = work + 1
    /\ qpc' = "loop"
    /\ UNCHANGED <<vars, call, qIndex, qc, frames, value, error>>

\* the loop body of the builder in progress, on matrix_of_qubits
Iterated ==
    IF Fifteen THEN Iteration15(call.a, matrix_of_qubits)
    ELSE IterationB(call.a, Modulus, matrix_of_qubits)

\* lines 77-101 and 123-147: one iteration of the loop
Iterate ==
    /\ qpc = "loop"
    /\ iteration < Power
    /\ matrix_of_qubits' = Iterated.matrix
    /\ work' = work + Iterated.steps
    /\ iteration' = iteration + 1
    /\ UNCHANGED <<vars, call, qpc, qIndex, qc, frames, value, error>>

\* lines 102 and 148: the builder returns to its caller
ReturnMatrix ==
    /\ qpc = "loop"
    /\ iteration = Power
    /\ ~InPeriod
    /\ Finish(Returns(matrix_of_qubits))
    /\ UNCHANGED <<vars, call, matrix_of_qubits, iteration, work, qIndex, qc,
                   frames>>

\* lines 166-168: the transform, its inverse and qc = zeros
PeriodStart ==
    /\ qpc = "called"
    /\ InPeriod
    /\ qc' = zeros1(call.n_count)
    /\ qIndex' = 0
    /\ qpc' = "period"
    /\ UNCHANGED <<vars, call, matrix_of_qubits, iteration, work, frames, value,
                   error>>

\* line 171: the call c_amodb(a, int(2**q), num)
PeriodCall ==
    /\ qpc = "period"
    /\ qIndex < call.n_count
    /\ qpc' = "validate"
    /\ UNCHANGED <<vars, call, matrix_of_qubits, iteration, work, qIndex, qc,
                   frames, value, error>>

\* lines 170-171: qc[q][q] += (the matrix returned)[q][q]
PeriodSample ==
    /\ qpc = "loop"
    /\ iteration = Power
    /\ InPeriod
    /\ qc' = [qc EXCEPT ![qIndex] = @ + matrix_of_qubits[qIndex][qIndex]]
    /\ qIndex' = qIndex + 1
    /\ qpc' = "period"
    /\ UNCHANGED <<vars, call, matrix_of_qubits, iteration, work, frames, value,
                   error>>

\* lines 172-174: kron(qc, identity(int(2**n_count / n_count))) has
\* n_count * int(2**n_count / n_count) rows, QFT_dagger 2**n_count
ShapesAlign ==
    call.n_count * (qubits_to_bits(call.n_count) \div call.n_count)
        = qubits_to_bits(call.n_count)

\* lines 172-175
Contract ==
    /\ qpc = "period"
    /\ qIndex = call.n_count
    /\ IF ShapesAlign
       THEN \E period \in Periods(Contracted(qc, call.n_count),
                                  qubits_to_bits(call.n_count)) :
                Finish(Returns(period))
       ELSE Finish(Raises("ValueError"))
    /\ UNCHANGED <<vars, call, matrix_of_qubits, iteration, work, qIndex, qc,
                   frames>>

\* get_bra(*args, qubit_string=...) and get_ket(*args, qubit_string=...)
BasisVector ==
    /\ qpc = "called"
    /\ call.f \in Basis
    /\ Finish(IF call.f = "get_bra" THEN get_bra(call.args, call.qubit_string)
              ELSE get_ket(call.args, call.qubit_string))
    /\ UNCHANGED <<vars, call, matrix_of_qubits, iteration, work, qIndex, qc,
                   frames>>

\* the gates built from outer products; a real gate is returned as it is
BuiltGate(name) ==
    CASE name = "Pauli_X_Gate" -> Pauli_X_Gate
      [] name = "Pauli_Y_Gate" -> Pauli_Y_Gate
      [] name = "Pauli_Z_Gate" -> Pauli_Z_Gate
      [] name = "CNOT_Gate" -> CNOT_Gate
      [] name = "CY_Gate" -> CY_Gate
      [] name = "CZ_Gate" -> CZ_Gate
      [] name = "Swap_Gate" -> Swap_Gate

BuildGate ==
    /\ qpc = "called"
    /\ call.f \in GateNames
    /\ Finish(Returns(BuiltGate(call.f)))
    /\ UNCHANGED <<vars, call, matrix_of_qubits, iteration, work, qIndex, qc,
                   frames>>

\* quantum_not_gate_matrix(numQubits)
NotGate ==
    /\ qpc = "called"
    /\ call.f = "quantum_not_gate_matrix"
    /\ Finish(Returns(quantum_not_gate_matrix(call.numQubits)))
    /\ UNCHANGED <<vars, call, matrix_of_qubits, iteration, work, qIndex, qc,
                   frames>>

\* identityGate(numQubits)
IdentityGate ==
    /\ qpc = "called"
    /\ call.f = "identityGate"
    /\ Finish(Returns(identityGate(call.numQubits)))
    /\ UNCHANGED <<vars, call, matrix_of_qubits, iteration, work, qIndex, qc,
                   frames>>

\* line 206: identity_gate calls identity_gate_helper(numQubits)
IdentityCall ==
    /\ qpc = "called"
    /\ call.f = "identity_gate"
    /\ frames' = <<call.numQubits>>
    /\ qpc' = "helper"
    /\ UNCHANGED <<vars, call, matrix_of_qubits, iteration, work, qIndex, qc,
                   value, error>>

\* lines 215-216: the base case
HelperBase ==
    /\ qpc = "helper"
    /\ frames[Len(frames)] = 1
    /\ value' = <<zero_prod, one_prod>>
    /\ frames' = SubSeq(frames, 1, Len(frames) - 1)
    /\ qpc' = "helper_returned"
    /\ UNCHANGED <<vars, call, matrix_of_qubits, iteration, work, qIndex, qc,
                   error>>

\* line 218: the recursive call identity_gate_helper(numQubits - 1); a call
\* beyond the recursion limit raises RecursionError
HelperDescend ==
    /\ qpc = "helper"
    /\ frames[Len(frames)] # 1
    /\ IF Len(frames) < RecursionLimit
       THEN /\ frames' = Append(frames, frames[Len(frames)] - 1)
            /\ UNCHANGED <<qpc, value, error>>
       ELSE /\ Finish(Raises("RecursionError"))
            /\ UNCHANGED frames
    /\ UNCHANGED <<vars, call, matrix_of_qubits, iteration, work, qIndex, qc>>

\* lines 218-221: the list of the recursive call comes back and the calling
\* frame builds its own list from it
HelperAscend ==
    /\ qpc = "helper_returned"
    /\ frames # <<>>
    /\ value' = HelperList(value)
    /\ frames' = SubSeq(frames, 1, Len(frames) - 1)
    /\ UNCHANGED <<vars, call, matrix_of_qubits, iteration, work, qIndex, qc,
                   qpc, error>>

\* line 206: sum of the list of the outermost call
IdentitySum ==
    /\ qpc = "helper_returned"
    /\ frames = <<>>
    /\ Finish(Returns(SumList(value, Len(value))))
    /\ UNCHANGED <<vars, call, matrix_of_qubits, iteration, work, qIndex, qc,
                   frames>>

\* convert_vector_to_matrix(qubit_vector)
ConvertVector ==
    /\ qpc = "called"
    /\ call.f = "convert_vector_to_matrix"
    /\ Finish(Returns(convert_vector_to_matrix(call.qubit_vector)))
    /\ UNCHANGED <<vars, call, matrix_of_qubits, iteration, work, qIndex, qc,
                   frames>>

\* convert_matrix_to_vector(qubit_matrix)
ConvertMatrix ==
    /\ qpc = "called"
    /\ call.f = "convert_matrix_to_vector"
    /\ Finish(Returns(convert_matrix_to_vector(call.qubit_matrix)))
    /\ UNCHANGED <<vars, call, matrix_of_qubits, iteration, work, qIndex, qc,
                   frames>>

\* applied_swap_gate(qubits, *args)
ApplySwaps ==
    /\ qpc = "called"
    /\ call.f = "applied_swap_gate"
    /\ Finish(Returns(applied_swap_gate(call.qubits, call.args)))
    /\ UNCHANGED <<vars, call, matrix_of_qubits, iteration, work, qIndex, qc,
                   frames>>

GateNext ==
    \/ EnterBuilder
    \/ Rejected
    \/ Accepted
    \/ Iterate
    \/ ReturnMatrix
    \/ PeriodStart
    \/ PeriodCall
    \/ PeriodSample
    \/ Contract
    \/ BasisVector
    \/ BuildGate
    \/ NotGate
    \/ IdentityGate
    \/ IdentityCall
    \/ HelperBase
    \/ HelperDescend
    \/ HelperAscend
    \/ IdentitySum
    \/ ConvertVector
    \/ ConvertMatrix
    \/ ApplySwaps

GateSpec == GateInit /\ [][GateNext]_<<vars, gvars>>

\* ================================================================ claims
RECURSIVE Product(_)
Product(list) == IF list = <<>> THEN 1 ELSE Head(list) * Product(Tail(list))

\* limbs times the product of the list
RECURSIVE ProductWith(_, _)
ProductWith(list, limbs) ==
    IF list = <<>> THEN limbs
    ELSE ProductWith(Tail(list), LimbsMul(limbs, Head(list), 0))

Count(list, v) == Cardinality({k \in 1..Len(list) : list[k] = v})

Range(list) == {list[k] : k \in 1..Len(list)}

Ascending(list) == \A j, k \in 1..Len(list) : j < k => list[j] <= list[k]

\* how often the prime q divides the natural limbs >= 1
RECURSIVE Multiplicity(_, _)
Multiplicity(limbs, q) ==
    IF LimbsMod(limbs, q) # 0 THEN 0
    ELSE 1 + Multiplicity(LimbsDivRem(limbs, q).q, q)

ErrorOutcomes == {"sampling_error", "validation_error", "overflow"}

\* the input is num >= 1
Positive == N # <<>>

\* the input is below LimbBase^2: Val(N) is a 32-bit integer
Small == Len(N) <= 2

\* a bound on the steps a run has left
StepsLeft ==
    CASE pc = "strip2" -> LimbsBitLength(num) + limit + 4
      [] pc = "strip5" -> LimbsBitLength(num) + limit + 3
      [] pc = "loop" -> limit - i + 2
      [] pc = "return" -> 1
      [] OTHER -> 0

\* C1: for num >= 1 the accumulated factors times the working cofactor equal
\* num in every state, so the product of the returned list equals num.
C1_ProductIsNum ==
    Positive =>
        CASE pc = "done" -> ProductWith(result, <<1>>) = N
          [] pc = "return" -> ProductWith(factorization, <<1>>) = N
          [] pc = "raised" -> TRUE
          [] OTHER -> ProductWith(factorization, num) = N

\* C2: the return step hands back the accumulator without its 1s, sorted
\* ascending, on one of the four terminal paths; every returned factor of a
\* num >= 1 is greater than 1.
C2_ReturnedList ==
    [][pc = "return" /\ pc' = "done" =>
          /\ path' \in {"one", "square", "quick", "exhausted"}
          /\ Ascending(result')
          /\ Count(result', 1) = 0
          /\ Len(result') = Len(factorization) - Count(factorization, 1)
          /\ \A v \in Range(factorization) \ {1} :
                Count(result', v) = Count(factorization, v)
          /\ Positive => \A k \in 1..Len(result') : result'[k] > 1]_vars

C2_Witness ==
    pc = "done" /\ path = "one" /\ extractions = 1 /\ result = <<3, 7>>

\* C3: a run on num >= 1 makes at most limit iterations and at most limit
\* calls of the period function, every iteration (also one that ends in an
\* error) uses up one attempt, the run does not raise and every step of it
\* uses up a bounded budget of steps, at the end of which it has returned,
\* and exhaustion returns the accumulated factors together with the
\* cofactor.
C3_Bounded ==
    /\ [](i <= limit /\ calls <= i)
    /\ [][pc = "loop" /\ pc' = "loop" => i' = i + 1 /\ calls' <= calls + 1]_vars
    /\ [](pc = "done" /\ path = "exhausted" =>
            /\ i = limit
            /\ Len(result) = Len(factorization)
            /\ Val(num) > 1 => Val(num) \in Range(result))
    /\ [](Positive => pc # "raised")
    /\ [](Positive /\ StepsLeft = 0 => pc = "done")
    /\ [][Positive => StepsLeft' < StepsLeft]_vars

\* C4: the call returns for every non-negative num, 0 included: the strip
\* phase does not raise, and each of its steps changes the cofactor (a step
\* of these loops that leaves the cofactor as it was is taken again and
\* again, and the phase never hands over to the main loop).
C4_StripEnds ==
    /\ [](pc # "raised")
    /\ [][(pc = "strip2" \/ pc = "strip5") /\ pc' = pc => num' # num]_vars

\* C5: factorize(15) returns [3, 5] for every limit: the cofactor is 3 in
\* the main loop, every iteration is a sampling error, the period function
\* is never invoked and the run ends by appending the cofactor.
C5_Fifteen ==
    N = Limbs(15) =>
        /\ calls = 0
        /\ extractions = 0
        /\ outcome \in {"start", "strip", "sampling_error", "return"}
        /\ pc = "loop" => Val(num) = 3 /\ factorization = <<5>>
        /\ pc = "return" => path = "exhausted" /\ factorization = <<5, 3>>
        /\ pc = "done" => path = "exhausted" /\ i = limit /\ result = <<3, 5>>

C5_Witness ==
    /\ N = Limbs(15) /\ pc = "done" /\ limit >= 2 /\ i = limit
    /\ outcome = "return" /\ result = <<3, 5>>

\* x is the square of a natural number
IsSquare(x) == \E r \in 0..x : r * r = x

C7_QuickReturns ==
    (quick_compute /\ extractions >= 1) =>
        /\ extractions = 1
        /\ pc \in {"return", "done"}
        /\ path = "quick"
        /\ outcome = "extraction"
        /\ Val(lastCall[1]) % Val(num) = 0
        /\ pc = "return" => factorization[Len(factorization)] = Val(num)
        /\ pc = "done" /\ Val(num) > 1 => Val(num) \in Range(result)

C7_Witness ==
    /\ quick_compute /\ pc = "done" /\ extractions = 1
    /\ i < limit /\ Val(num) > 1 /\ Len(result) >= 2

\* C8: an iteration that ends in a sampling error, a validation error of the
\* period function or an overflow of the power leaves the accumulator and
\* the cofactor as they were, and the run goes on with the next iteration.
C8_ErrorsLeaveState ==
    [][(i' = i + 1 /\ outcome' \in ErrorOutcomes) =>
          /\ num' = num
          /\ factorization' = factorization
          /\ pc' = "loop"
          /\ result' = result]_vars

C8_Witness ==
    /\ outcome = "overflow" /\ pc = "loop"
    /\ extractions >= 1 /\ Val(num) > 1 /\ Len(factorization) >= 2

\* C9: for num >= 1 the 2s and then the 5s are appended before the main
\* loop; from there on the cofactor is divisible by neither, and the list
\* holds as many 2s and 5s as num has; factorize(100) = [2, 2, 5, 5] with no
\* call of the period function.
C9_TwosAndFives ==
    Positive =>
        /\ pc = "strip5" =>
            /\ ~Divides(2, num)
            /\ Count(factorization, 2) = Multiplicity(N, 2)
            /\ Len(factorization) = Count(factorization, 2) + Count(factorization, 5)
        /\ pc \in {"loop", "return", "done"} =>
            /\ ~Divides(2, num) /\ ~Divides(5, num)
            /\ Count(factorization, 2) = Multiplicity(N, 2)
            /\ Count(factorization, 5) = Multiplicity(N, 5)
        /\ pc = "done" =>
            /\ Count(result, 2) = Multiplicity(N, 2)
            /\ Count(result, 5) = Multiplicity(N, 5)
        /\ N = Limbs(100) => calls = 0 /\ (pc = "done" => result = <<2, 2, 5, 5>>)

\* C10: the period function is never invoked with a candidate that divides
\* the cofactor.
C10_NoDivisorCandidate ==
    calls > 0 => ~Divides(lastCall[2], lastCall[1])

\* ------------------------------------------------ claims on the gate library
\* the r x c matrix whose entry (x, y) is 1 where image[y] = x and 0 elsewhere
MatrixOf(r, c, image) ==
    [x \in 0..r - 1 |-> [y \in 0..c - 1 |-> IF image[y] = x THEN 1 ELSE 0]]

\* C11: the call qubitFactoringPeriodFinding(num=15, a=7, n_count=8) returns
\* 4, the period of 7 modulo 15.
C11_PeriodOfSeven ==
    (/\ call = [f |-> "qubitFactoringPeriodFinding", num |-> 15, a |-> 7,
                n_count |-> 8]
     /\ qpc \in {"returned", "raised"})
    => qpc = "returned" /\ value = 4

\* a^power * x mod b
RECURSIVE TimesPower(_, _, _, _)
TimesPower(a, power, b, x) ==
    IF power = 0 THEN x % b ELSE TimesPower(a, power - 1, b, (a * x) % b)

\* the power-fold repetition of "multiply by a mod b" on the 16 basis states:
\* x < b goes to a^power * x mod b, the other states stay
Multiplication(a, power, b) ==
    MatrixOf(16, 16, [x \in 0..15 |-> IF x < b THEN TimesPower(a, power, b, x) ELSE x])

\* exactly one 1 in every row and every column of M, 0 elsewhere
IsPermutationMatrix(M) ==
    /\ DOMAIN M = 0..15
    /\ \A x \in 0..15 :
        /\ DOMAIN M[x] = 0..15
        /\ \A y \in 0..15 : M[x][y] \in {0, 1}
        /\ Cardinality({y \in 0..15 : M[x][y] = 1}) = 1
        /\ Cardinality({y \in 0..15 : M[y][x] = 1}) = 1

\* C12: for a whitelisted base a and every power, c_amod15(a, power), and
\* c_amodb(a, power, b) for odd b, return a 16 x 16 permutation matrix, the
\* power-fold repetition of "multiply by a mod b".
C12_Permutation ==
    (call.f \in Builders /\ qpc = "returned" /\ Modulus % 2 = 1) =>
        /\ IsPermutationMatrix(value)
        /\ value = Multiplication(call.a, call.power, Modulus)

\* a and b have no common divisor above 1
Coprime(a, b) == ~\E d \in 2..b : a % d = 0 /\ b % d = 0

\* C13: for an odd modulus b >= 3, every power and every base a that is not
\* coprime with b, c_amodb(a, power, b) raises ValueError: it never gets
\* past the validation, and every base of the whitelist is coprime with b.
C13_NotCoprimeRejected ==
    (call.f = "c_amodb" /\ call.b >= 3 /\ call.b % 2 = 1) =>
        /\ ~Coprime(call.a, call.b) =>
            /\ qpc \in {"called", "validate", "raised"}
            /\ qpc = "raised" => error = "ValueError"
        /\ \A a \in Whitelist(call.b) : Coprime(a, call.b)
        /\ qpc \in {"loop", "returned"} => Coprime(call.a, call.b)

C13_Witness ==
    /\ call.f = "c_amodb" /\ call.b = 15 /\ call.a = 5 /\ call.power = MaxPower
    /\ qpc = "raised" /\ error = "ValueError"

\* the base of the call is in the whitelist the claim gives for the builder:
\* {2, 7, 8, 11, 13}, and {2, (b-1)/2, (b-1)/2 + 1, b-4, b-2}
InStatedWhitelist ==
    IF call.f = "c_amod15" THEN call.a \in {2, 7, 8, 11, 13}
    ELSE 2 * call.a \in {4, call.b - 1, call.b + 1, 2 * call.b - 8, 2 * call.b - 4}

\* C14: for a base a outside the whitelist the builder fails with ValueError
\* before a matrix is constructed and before any swap or Pauli-X step; for a
\* whitelisted a it raises no validation error.
C14_ValidationFirst ==
    call.f \in Builders =>
        /\ ~InStatedWhitelist =>
            /\ qpc \in {"called", "validate", "raised"}
            /\ matrix_of_qubits = <<>>
            /\ work = 0
            /\ qpc = "raised" => error = "ValueError"
        /\ InStatedWhitelist => qpc # "raised" /\ error = "none"

C14_Witness ==
    /\ call.f \in Builders /\ ~InStatedWhitelist /\ call.power > 0
    /\ qpc = "raised" /\ error = "ValueError"
    /\ work = 0 /\ matrix_of_qubits = <<>>

\* a call of get_bra or get_ket with one positional str of 1 to 3 symbols
\* 0 and 1 and no qubit_string
IsBitStringCall ==
    /\ call.f \in Basis
    /\ call.qubit_string = <<>>
    /\ Len(call.args) = 1
    /\ "str" \in DOMAIN call.args[1]
    /\ Len(call.args[1].str) \in 1..3
    /\ \A k \in 1..Len(call.args[1].str) : call.args[1].str[k] \in {"0", "1"}

\* the symbols of a bit string as positional integers, in the same order
AsBits(s) == [k \in 1..Len(s) |-> [int |-> IF s[k] = "1" THEN 1 ELSE 0]]

\* the function of the call, applied to other arguments
SameFunction(args, qubit_string) ==
    IF call.f = "get_bra" THEN get_bra(args, qubit_string)
    ELSE get_ket(args, qubit_string)

\* C15: get_ket(s) (get_bra(s)) of a bit string s of length 1 to 3 equals
\* get_ket (get_bra) of the same bits in the same order as positional
\* integers; get_ket("0") = get_ket(0) and get_bra("1") = get_bra(1).
C15_SameEncoding ==
    (IsBitStringCall /\ qpc \in {"returned", "raised"}) =>
        /\ qpc = "returned"
        /\ SameFunction(AsBits(call.args[1].str), <<>>).error = "none"
        /\ value = SameFunction(AsBits(call.args[1].str), <<>>).value

\* a call of get_bra or get_ket with 1 to 3 positional bits
IsBitsCall ==
    /\ call.f \in Basis
    /\ Len(call.args) \in 1..3
    /\ \A k \in 1..Len(call.args) : call.args[k] \in {[int |-> 0], [int |-> 1]}

\* the sum of x_i * 2^(i-1), and of x_i * 2^(k-i), over the positional bits
RECURSIVE LastIsMost(_, _)
LastIsMost(args, k) ==
    IF k = 0 THEN 0 ELSE args[k].int * Pow2(k - 1) + LastIsMost(args, k - 1)

RECURSIVE FirstIsMost(_, _)
FirstIsMost(args, k) ==
    IF k = 0 THEN 0
    ELSE args[k].int * Pow2(Len(args) - k) + FirstIsMost(args, k - 1)

\* the basis ket (bra) of dimension d with its 1 at index
BasisVectorAt(f, d, index) ==
    IF f = "get_ket"
    THEN [x \in 0..d - 1 |-> [y \in 0..0 |-> IF x = index THEN 1 ELSE 0]]
    ELSE [x \in 0..0 |-> [y \in 0..d - 1 |-> IF y = index THEN 1 ELSE 0]]

\* the block of the qubit_string of the call is tensored as one block with
\* the positional block
OneBlock(positional) ==
    call.qubit_string # <<>> =>
        LET block == SameFunction(<<>>, call.qubit_string)
        IN  IF block.error # "none" THEN qpc = "raised" /\ error = block.error
            ELSE qpc = "returned" /\ value = kron(block.value, positional)

\* C16 as stated: for positional bits x1..xk (k <= 3) the last positional
\* argument is the most-significant tensor factor, the 1 of the vector is at
\* index sum of x_i * 2^(i-1); a qubit_string is tensored as one block with
\* the positional block.
C16_LastIsMostSignificant ==
    (IsBitsCall /\ qpc \in {"returned", "raised"}) =>
        /\ call.qubit_string = <<>> =>
            /\ qpc = "returned"
            /\ value = BasisVectorAt(call.f, Pow2(Len(call.args)),
                                     LastIsMost(call.args, Len(call.args)))
        /\ OneBlock(BasisVectorAt(call.f, Pow2(Len(call.args)),
                                  LastIsMost(call.args, Len(call.args))))

\* C16: for positional bits x1..xk (k <= 3) the first positional argument is
\* the most-significant tensor factor, the 1 of the vector is at index sum
\* of x_i * 2^(k-i); a qubit_string is tensored as one block on the left of
\* the positional block.
C16_FirstIsMostSignificant ==
    (IsBitsCall /\ qpc \in {"returned", "raised"}) =>
        /\ call.qubit_string = <<>> =>
            /\ qpc = "returned"
            /\ value = BasisVectorAt(call.f, Pow2(Len(call.args)),
                                     FirstIsMost(call.args, Len(call.args)))
        /\ OneBlock(BasisVectorAt(call.f, Pow2(Len(call.args)),
                                  FirstIsMost(call.args, Len(call.args))))

C16_Witness ==
    /\ call.f = "get_ket"
    /\ call.args = <<[int |-> 0], [int |-> 1], [int |-> 1]>>
    /\ call.qubit_string = <<"1", "0">>
    /\ qpc = "returned"
    /\ value = BasisVectorAt("get_ket", 32, 8 + 3)

\* the smallest k with 2^k > v
RECURSIVE BitsFor(_, _)
BitsFor(v, k) == IF Pow2(k) > v THEN k ELSE BitsFor(v, k + 1)

\* C17: for an integer v >= 2 as the positional argument, get_ket(v) returns
\* without error the column vector of dimension 2^k with its 1 at index v,
\* k the smallest integer with 2^k > v, and get_bra(v) the row vector.
C17_IndexVector ==
    (/\ call.f \in Basis
     /\ call.qubit_string = <<>>
     /\ call.args \in IntArgs
     /\ call.args[1].int >= 2
     /\ qpc \in {"returned", "raised"})
    => /\ qpc = "returned"
       /\ value = BasisVectorAt(call.f, Pow2(BitsFor(call.args[1].int, 0)),
                                call.args[1].int)

\* the retained constant of a gate built from outer products
RetainedConstant(name) ==
    CASE name = "Pauli_X_Gate" -> Pauli_X_gate
      [] name = "Pauli_Y_Gate" -> Pauli_Y_gate
      [] name = "Pauli_Z_Gate" -> Pauli_Z_gate
      [] name = "CNOT_Gate" -> CNOT_gate
      [] name = "CY_Gate" -> CY_gate
      [] name = "CZ_Gate" -> CZ_gate
      [] name = "Swap_Gate" -> swap_gate

\* the gates and the constants that are complex arrays in the model
ComplexBuilt == {"Pauli_Y_Gate", "CNOT_Gate", "CY_Gate", "CZ_Gate"}
ComplexRetained == {"Pauli_Y_Gate", "CY_Gate"}

\* C18: each gate built from outer products equals its retained constant
\* entry for entry: Pauli X, Y, Z, CNOT, CY, CZ and the swap gate.
C18_BuiltEqualsRetained ==
    (call.f \in GateNames /\ qpc \in {"returned", "raised"}) =>
        /\ qpc = "returned"
        /\ (IF call.f \in ComplexBuilt THEN value ELSE complex(value))
           = (IF call.f \in ComplexRetained THEN RetainedConstant(call.f)
              ELSE complex(RetainedConstant(call.f)))

C18_Witness ==
    /\ call.f = "CY_Gate" /\ qpc = "returned"
    /\ value = CY_gate
    /\ value.im[3][2] = 1 /\ value.im[2][3] = -1

\* the 2^n x 2^n permutation matrix that exchanges the last two basis states
ExchangesLastTwo(n) ==
    MatrixOf(Pow2(n), Pow2(n),
             [x \in 0..Pow2(n) - 1 |->
                 IF x = Pow2(n) - 2 THEN Pow2(n) - 1
                 ELSE IF x = Pow2(n) - 1 THEN Pow2(n) - 2
                 ELSE x])

\* C19: for n in 1..4 quantum_not_gate_matrix(n) is the 2^n x 2^n
\* permutation matrix that exchanges the two basis states whose n-1
\* most-significant qubits are all 1 and fixes every other one, and G times
\* its transpose is the identity; for n = 0 it returns an empty gate.
C19_NotGate ==
    (call.f = "quantum_not_gate_matrix" /\ qpc \in {"returned", "raised"}) =>
        /\ qpc = "returned"
        /\ call.numQubits = 0 => value = <<>>
        /\ call.numQubits >= 1 =>
            /\ value = ExchangesLastTwo(call.numQubits)
            /\ dot(value, transpose(value)) = identity(Pow2(call.numQubits))

C19_Witness ==
    /\ call.f = "quantum_not_gate_matrix" /\ call.numQubits = 4
    /\ qpc = "returned"
    /\ value[14][15] = 1 /\ value[15][14] = 1 /\ value[13][13] = 1
    /\ value[15][15] = 0

\* the list of the 2^n projectors, the i-th with its single 1 at (i, i)
Projectors(n) ==
    [k \in 1..Pow2(n) |->
        [x \in 0..Pow2(n) - 1 |-> [y \in 0..Pow2(n) - 1 |->
            IF x = k - 1 /\ y = k - 1 THEN 1 ELSE 0]]]

\* C20: for every non-negative n for which the identity gate is defined
\* (identityGate(n) returns it for every n >= 0) the recursion of
\* identity_gate_helper ends at the base case n = 1: the call of
\* identity_gate(n) raises nothing, the list of the outermost call holds the
\* 2^n projectors in order, and identity_gate(n) = identityGate(n).
C20_IdentityGate ==
    call.f = "identity_gate" =>
        /\ qpc # "raised"
        /\ (qpc = "helper_returned" /\ frames = <<>>) =>
               value = Projectors(call.numQubits)
        /\ qpc = "returned" => value = identityGate(call.numQubits)

\* C21: for a d x 1 column vector v, convert_vector_to_matrix(v) is the
\* d x d matrix with v on its diagonal and zero elsewhere, and
\* convert_matrix_to_vector of it is v again; for a diagonal d x d matrix M,
\* convert_vector_to_matrix(convert_matrix_to_vector(M)) is M; d = 1 included.
C21_RoundTrip ==
    /\ (call.f = "convert_vector_to_matrix" /\ qpc \in {"returned", "raised"}) =>
        /\ qpc = "returned"
        /\ DOMAIN value = DOMAIN call.qubit_vector
        /\ \A x \in DOMAIN value :
            /\ DOMAIN value[x] = DOMAIN call.qubit_vector
            /\ \A y \in DOMAIN value[x] :
                value[x][y] = IF x = y THEN call.qubit_vector[x][0] ELSE 0
        /\ convert_matrix_to_vector(value) = call.qubit_vector
    /\ (call.f = "convert_matrix_to_vector" /\ qpc \in {"returned", "raised"}) =>
        /\ qpc = "returned"
        /\ convert_vector_to_matrix(value) = call.qubit_matrix

C21_Witness ==
    /\ call.f = "convert_matrix_to_vector" /\ qpc = "returned"
    /\ Rows(call.qubit_matrix) = MaxDim /\ call.qubit_matrix[1][1] = 2
    /\ Rows(value) = MaxDim /\ Cols(value) = 1 /\ value[1][0] = 2

\* C22: applied_swap_gate applies the swap to every pair of two of its
\* arguments: for pairwise distinct qubits a, b, c, d the call with
\* (a, b, c, d) equals the call with (c, d) on the result of the call with
\* (a, b), and the same single pair applied twice gives back the diagonal
\* state.
C22_EveryPair ==
    (call.f = "applied_swap_gate" /\ qpc \in {"returned", "raised"}) =>
        /\ qpc = "returned"
        /\ Len(call.args) = 4 =>
               value = applied_swap_gate(
                           applied_swap_gate(call.qubits, SubSeq(call.args, 1, 2)),
                           SubSeq(call.args, 3, 4))
        /\ Len(call.args) = 2 =>
               applied_swap_gate(value, call.args) = call.qubits

\* ------------------------------------------------------------- C23
Square(x) == x * x

\* b^e modulo n in exact integer arithmetic
RECURSIVE ModPow(_, _, _)
ModPow(b, e, n) ==
    IF e = 0 THEN 1 % n
    ELSE IF e % 2 = 0 THEN Square(ModPow(b, e \div 2, n)) % n
    ELSE (b * ModPow(b, e - 1, n)) % n

\* candidate^(period/2) + 1 or candidate^(period/2) - 1 is congruent to 0
\* modulo the cofactor
CongruentToZero(candidate, p, cofactor) ==
    \/ (ModPow(candidate, p \div 2, cofactor) + 1) % cofactor = 0
    \/ (ModPow(candidate, p \div 2, cofactor) + cofactor - 1) % cofactor = 0

\* a main-loop iteration in which the period function returned
IterationWithPeriod ==
    /\ pc = "loop"
    /\ i' = i + 1
    /\ calls' = calls + 1
    /\ outcome' # "validation_error"

\* the number of entries an extraction appends without the extra pulls
PlainAppends == IF quick_compute THEN 3 ELSE 2

\* C23: in a main-loop iteration where the returned period is odd, or where
\* candidate^(period/2)+1 or candidate^(period/2)-1 is congruent to 0 modulo
\* the cofactor, nothing is appended and the cofactor is unchanged (so an
\* extraction happens only for an even period with neither expression
\* congruent to 0), and the two extra gcd(candidate, cofactor) pulls happen
\* only when the period equals 2.
C23_ExtractionOnlyWhenNonZero ==
    [][IterationWithPeriod =>
          /\ (\/ lastPeriod' % 2 = 1
              \/ CongruentToZero(lastCall'[2], lastPeriod', Val(lastCall'[1])))
                 => (factorization' = factorization /\ num' = num)
          /\ Len(factorization') > Len(factorization) + PlainAppends
                 => lastPeriod' = 2]_vars

\* C23 for the periods whose half power a float holds exactly
C23_SmallPeriods ==
    [][(IterationWithPeriod /\ lastPeriod' <= MaxPeriod) =>
          /\ (\/ lastPeriod' % 2 = 1
              \/ CongruentToZero(lastCall'[2], lastPeriod', Val(lastCall'[1])))
                 => (factorization' = factorization /\ num' = num)
          /\ Len(factorization') > Len(factorization) + PlainAppends
                 => lastPeriod' = 2]_vars

\* ------------------------------------------------------------- C24
\* limbs divides n, with a quotient within the inputs of the model
DividesNum(limbs, n) == \E k \in 1..(4 * MaxNum) : LimbsMul(limbs, k, 0) = n

\* limbs is no perfect square (beyond two limbs: it is 2 modulo 3)
NoSquare(limbs) ==
    IF FitsInt(limbs) THEN ~IsPerfectSquare(Val(limbs))
    ELSE LimbsMod(limbs, 3) = 2

\* 3 <= base <= limbs - 1
BaseInRange(base, limbs) == 3 <= base /\ (FitsInt(limbs) => base <= Val(limbs) - 1)

\* C24: every invocation of the period function (for num >= 1) passes as
\* modulus the current working cofactor, and that modulus is odd, greater
\* than 3, not divisible by 5, not a perfect square and a divisor of the
\* original num; the base passed satisfies 3 <= base <= modulus - 1.
C24_ModulusIsCofactor ==
    [][(Positive /\ calls' = calls + 1) =>
          /\ lastCall'[1] = num
          /\ LimbsOdd(lastCall'[1])
          /\ FitsInt(lastCall'[1]) => Val(lastCall'[1]) > 3
          /\ ~Divides(5, lastCall'[1])
          /\ NoSquare(lastCall'[1])
          /\ DividesNum(lastCall'[1], N)
          /\ BaseInRange(lastCall'[2], lastCall'[1])]_vars

\* C24 for the inputs whose divisions by 2 and 5 are exact in a float
C24_SmallInputs ==
    [][(Positive /\ Small /\ calls' = calls + 1) =>
          /\ lastCall'[1] = num
          /\ LimbsOdd(lastCall'[1])
          /\ Val(lastCall'[1]) > 3
          /\ ~Divides(5, lastCall'[1])
          /\ NoSquare(lastCall'[1])
          /\ DividesNum(lastCall'[1], N)
          /\ BaseInRange(lastCall'[2], lastCall'[1])]_vars

\* ------------------------------------------------------------- C25
\* the matrix after power iterations of the loop of c_amod15 (the matrix
\* of each iteration is computed before the next one starts)
RECURSIVE Repeated15(_, _, _)
Repeated15(a, power, matrix) ==
    IF matrix = matrix /\ power > 0
    THEN Repeated15(a, power - 1, Iteration15(a, matrix).matrix)
    ELSE matrix

\* the matrix after power iterations of the loop of c_amodb
RECURSIVE RepeatedB(_, _, _, _)
RepeatedB(a, power, b, matrix) ==
    IF matrix = matrix /\ power > 0
    THEN RepeatedB(a, power - 1, b, IterationB(a, b, matrix).matrix)
    ELSE matrix

\* for a call of one builder with the modulus 15: the other builder raises
\* ValueError on the same base
OtherRaises ==
    IF Fifteen THEN call.a \notin Whitelist(15) ELSE call.a \notin Whitelist15

\* and the matrix the other builder returns for the same base and power
OtherMatrix ==
    IF Fifteen
    THEN RepeatedB(call.a, call.power, 15, get_qubit_matrix(4, <<>>))
    ELSE Repeated15(call.a, call.power, get_qubit_matrix(4, <<>>))

\* C25: for every base a and every power >= 0, c_amod15(a, power) and
\* c_amodb(a, power, 15) either both raise a ValueError or both return the
\* same 16 x 16 matrix.
C25_SameAsFifteen ==
    (call.f \in Builders /\ Modulus = 15 /\ qpc \in {"returned", "raised"}) =>
        /\ qpc = "raised" => error = "ValueError" /\ OtherRaises
        /\ qpc = "returned" =>
            /\ ~OtherRaises
            /\ value = OtherMatrix
            /\ Rows(value) = 16 /\ Cols(value) = 16

C25_Witness ==
    /\ call = [f |-> "c_amodb", a |-> 7, power |-> MaxPower, b |-> 15]
    /\ qpc = "returned"
    /\ value = Repeated15(7, MaxPower, get_qubit_matrix(4, <<>>))
    /\ value # get_qubit_matrix(4, <<>>)
====
